---- MODULE Spec2Model ----
(***************************************************************************)
(* A model of sunPosition (src/sun.py), the function that turns a civil    *)
(* date, a time of day and a location into the sun's azimuth and           *)
(* elevation.                                                              *)
(*                                                                         *)
(* One call is a straight pipeline; each block of the function is one      *)
(* action and pc names the block that runs next:                           *)
(*   "doy" -> "jd" -> "ecl" -> "ra" -> "sid" -> "ha" -> "el" -> "az"        *)
(*         -> "returned" | "raised"                                        *)
(*                                                                         *)
(* Numbers.  The code computes with floats; the model computes with        *)
(* integers in fixed units:                                                *)
(*   angles          1/1000 degree (mdeg); a radian value is kept in the   *)
(*                   same unit (pi = 180000), so x * deg2rad changes the   *)
(*                   name of the unit and not the number;                  *)
(*   days (jd, time) ticks of 10 seconds, TicksPerDay ticks to a day;      *)
(*   hours (hour)    the same ticks, TicksPerHour to an hour;              *)
(*   sidereal hours  (gmst, lmst) 1/360000 hour (UnitsPerHour).            *)
(*                                                                         *)
(* Products with the almanac's rates are floored to the unit, so a value   *)
(* of -1 stands for every float of the last unit below zero.               *)
(*                                                                         *)
(* Library functions.  math.sin, math.cos, math.asin and math.atan are     *)
(* not evaluated numerically.  What the model keeps of them is exact:      *)
(* the sign and the zeros of sin and cos, the range of asin and atan, and  *)
(* atan(tan t) = t reduced to (-90, 90).  The magnitude of a value that    *)
(* only a numeric evaluation would fix is drawn from a grid of the         *)
(* interval it must lie in.                                                *)
(*                                                                         *)
(* Rounding.  Three effects of float arithmetic change what a call does,   *)
(* and the model keeps them as choices between the outcomes:               *)
(*   - x + m for a float x just below zero may round to m (AddRounded);    *)
(*     this is how Python's x % m and the step az + twopi can yield m;     *)
(*   - the argument of math.asin, when it is 1 or -1 in exact arithmetic,  *)
(*     may round beyond it, and math.asin then raises ValueError;          *)
(*   - math.sin and math.cos of a float are not zero where the exact       *)
(*     function is (sin(math.pi) = 1.2e-16, cos(math.pi / 2) = 6.1e-17),   *)
(*     sin(0.0) excepted.                                                  *)
(***************************************************************************)
EXTENDS Integers, Sequences, FiniteSets, TLC

VARIABLES
    args,       \* the call's arguments: year, month, day, hour, m, s, lat, long
    pc,         \* the block of sunPosition that runs next
    err,        \* the exception raised ("" when none)
    day,        \* local day: day of month, then day of year (lines 15-17)
    hour,       \* local hour: hour plus fraction (line 20), in ticks
    time,       \* days since JD 2451545.0 (line 27), in ticks
    mnlong,     \* mean longitude (lines 31-33), mdeg
    mnanom,     \* mean anomaly (lines 36-39), mdeg
    eclong,     \* ecliptic longitude (lines 42-46), mdeg
    oblqec,     \* obliquity of the ecliptic (lines 45, 47), mdeg
    num,        \* sign of cos(oblqec) * sin(eclong) (line 51)
    den,        \* sign of cos(eclong) (line 52)
    dir,        \* the direction of the vector (den, num), mdeg in [0, 360000)
    corr,       \* the quadrant corrections applied to ra (lines 54-55)
    ra,         \* right ascension (lines 53-55), mdeg
    dec,        \* declination (line 56), mdeg
    gmst,       \* Greenwich mean sidereal time (lines 60-62), sidereal units
    lmst,       \* local mean sidereal time (lines 65-68), units then mdeg
    ha,         \* hour angle (lines 71-73), mdeg
    el,         \* elevation (line 79), mdeg
    az,         \* azimuth (lines 80-87), mdeg
    cosAzPos,   \* line 83
    sinAzNeg,   \* line 84
    result      \* <<az, el>> once returned, <<>> before

vars == <<args, pc, err, day, hour, time, mnlong, mnanom, eclong, oblqec, num,
          den, dir, corr, ra, dec, gmst, lmst, ha, el, az, cosAzPos, sinAzNeg,
          result>>

----------------------------------------------------------------------------
(* Units *)

TicksPerHour == 360
TicksPerDay == 24 * TicksPerHour
UnitsPerHour == 360000
Milli == 1000

(* Bounds of the checked inputs *)

YearSpan == 101
MaxDay == 31
MonthSpan == 2
MaxDays == 400
GridN == 4

(* Program constants *)

RefYear == 1949
JdRefHalfDays == 65833
JdEpoch == 51545
EpochYear == 2000
FullCircle == 360000
HalfCircle == 180000
QuarterCircle == 90000
FullDay == 24

----------------------------------------------------------------------------
(* Arithmetic helpers *)

Abs(x) == IF x < 0 THEN -x ELSE x

Min(a, b) == IF a <= b THEN a ELSE b

Max(a, b) == IF a >= b THEN a ELSE b

(* <<q, r>> with a * b = q * c + r and 0 <= r < c, for b >= 0 and c > 0,   *)
(* computed by doubling so that no intermediate product leaves 32 bits.    *)
RECURSIVE MulDivMod(_, _, _)
MulDivMod(a, b, c) ==
    IF b = 0 THEN <<0, 0>>
    ELSE LET h == MulDivMod(a, b \div 2, c)
             t == 2 * h[2] + (b % 2) * a
         IN <<2 * h[1] + (t \div c), t % c>>

(* floor(a * b / c): a float product rate * time, floored to the unit *)
MulDiv(a, b, c) == MulDivMod(a, b, c)[1]

(* The float sum x + m for x < 0 < m: the exact sum, or m itself when x is *)
(* in the last unit below zero and the sum is nearer to m than to the      *)
(* float below m                                                           *)
AddRounded(x, m) == {x + m} \cup (IF x = -1 THEN {m} ELSE {})

(* Python's x % m for floats and m > 0: r = fmod(x, m), which is exact and *)
(* has the sign of x, then r + m when r < 0.  A remainder of a x below -m  *)
(* is a multiple of the spacing of the floats at m, and its sum is exact   *)
PyMod(x, m) ==
    IF x < 0 /\ x > -m THEN AddRounded(x, m) ELSE {x % m}

----------------------------------------------------------------------------
(* Day of the year, lines 13-17 *)

len_month == <<0, 31, 28, 31, 30, 31, 30, 31, 31, 30, 31, 30>>

(* np.cumsum(len_month)[i] for a 0-based i in 0..11 *)
RECURSIVE cumsum(_)
cumsum(i) == IF i = 0 THEN len_month[1] ELSE cumsum(i - 1) + len_month[i + 1]

(* numpy's indexing of a 12-element array: -12..-1 count from the end,     *)
(* anything outside -12..11 raises IndexError                              *)
IndexInBounds(i) == i >= -Len(len_month) /\ i < Len(len_month)

WrapIndex(i) == IF i < 0 THEN i + Len(len_month) ELSE i

(* line 16 without its exception for 29 February *)
leapdays_NoFeb29(year, month, d) ==
    /\ year % 4 = 0
    /\ (year % 400 = 0 \/ year % 100 # 0)
    /\ d >= 60

(* line 16 *)
leapdays(year, month, d) ==
    /\ year % 4 = 0
    /\ (year % 400 = 0 \/ year % 100 # 0)
    /\ d >= 60
    /\ ~(month = 2 /\ d = 60)

DayOfYearValue(year, month, dom) ==
    LET d == dom + cumsum(WrapIndex(month - 1))
    IN d + (IF leapdays(year, month, d) THEN 1 ELSE 0)

DayOfYear ==
    /\ pc = "doy"
    /\ IF IndexInBounds(args.month - 1)
       THEN /\ day' = DayOfYearValue(args.year, args.month, args.day)
            /\ pc' = "jd"
            /\ err' = err
       ELSE /\ day' = day
            /\ pc' = "raised"
            /\ err' = "IndexError"
    /\ UNCHANGED <<args, hour, time, mnlong, mnanom, eclong, oblqec, num, den,
                   dir, corr, ra, dec, gmst, lmst, ha, el, az, cosAzPos,
                   sinAzNeg, result>>

----------------------------------------------------------------------------
(* Julian date and time since the epoch, lines 19-27 *)

(* line 20: hour + m / 60 + s / 3600, in ticks *)
HourFraction(h, mi, se) ==
    h * TicksPerHour + (mi * TicksPerHour) \div 60 + (se * TicksPerHour) \div 3600

(* lines 21-23: jd = 32916.5 + delta * 365 + leap + day + hour / 24, ticks *)
JulianDay(year, doy, hticks) ==
    LET delta == year - RefYear
        leap == delta \div 4
    IN JdRefHalfDays * (TicksPerDay \div 2)
         + (delta * 365 + leap + doy) * TicksPerDay + hticks

JulianDate ==
    /\ pc = "jd"
    /\ LET h == HourFraction(args.hour, args.m, args.s)
       IN /\ hour' = h
          /\ time' = JulianDay(args.year, day, h) - JdEpoch * TicksPerDay
    /\ pc' = "ecl"
    /\ UNCHANGED <<args, err, day, mnlong, mnanom, eclong, oblqec, num, den,
                   dir, corr, ra, dec, gmst, lmst, ha, el, az, cosAzPos,
                   sinAzNeg, result>>

----------------------------------------------------------------------------
(* What the model keeps of the math library *)

(* The sign of sin(x) and of cos(x), exact for an angle x in mdeg *)
SinSign(x) ==
    LET r == x % FullCircle
    IN IF r = 0 \/ r = HalfCircle THEN 0 ELSE IF r < HalfCircle THEN 1 ELSE -1

CosSign(x) == SinSign(x + QuarterCircle)

GridStep == QuarterCircle \div GridN

(* Grid points of [-90000, 90000], the range of math.asin *)
AsinGrid == {k * GridStep : k \in (-GridN)..GridN}

(* Grid points of [0, 360000) *)

CircleGrid == {k * GridStep : k \in 0..(4 * GridN - 1)}

(* The values math.sin(x) may take, in 1/1000: its zeros and its extremes  *)
(* are exact, any other value is a grid point of the open interval         *)
SinValues(x) ==
    LET r == x % FullCircle
        sg == SinSign(x)
    IN IF sg = 0 THEN {0}
       ELSE IF r % HalfCircle = QuarterCircle THEN {sg * Milli}
       ELSE {sg * k * (Milli \div GridN) : k \in 1..(GridN - 1)}

(* math.atan(math.tan(t)): t reduced to (-90000, 90000) *)
AtanOfTan(t) == ((t + QuarterCircle) % HalfCircle) - QuarterCircle

(* The values g with lo < g < hi that the model draws from *)
Inside(lo, hi) ==
    {g \in AsinGrid \cup {(lo + hi) \div 2} : lo < g /\ g < hi}

----------------------------------------------------------------------------
(* Ecliptic coordinates, lines 29-47 *)

MnLong0 == 280460
MnLongRate == 9856474
MnAnom0 == 357528
MnAnomRate == 9856003
EclC1 == 1915
EclC2 == 20
Oblq0 == 23439
OblqRate == 4

(* The rates are in 1e-7 degree per day: rate * time in mdeg is            *)
(* rate * ticks / RateScale                                                *)
RateScale == 10000 * TicksPerDay

(* x % 360 followed by x += int(x < 0) * 360 (lines 32-33, 37-38, 43-44).  *)
(* The remainder is exact here: 280.460 + 0.9856474 * time and             *)
(* 357.528 + 0.9856003 * time are sums of floats above 256 wherever they   *)
(* are near zero, so they are multiples of the spacing of the floats at    *)
(* 360, and mnlong + 1.915 * sin(mnanom) + ... is positive wherever mnlong *)
(* is near zero (mnanom is then near 77 degrees)                           *)
Normalize360(x) ==
    LET r == x % FullCircle
    IN r + (IF r < 0 THEN FullCircle ELSE 0)

MeanLongitude(t) == Normalize360(MnLong0 + MulDiv(t, MnLongRate, RateScale))

MeanAnomaly(t) == Normalize360(MnAnom0 + MulDiv(t, MnAnomRate, RateScale))

EclipticLongitude(ml, s1, s2) ==
    Normalize360(ml + (EclC1 * s1 + EclC2 * s2) \div Milli)

Obliquity(t) == Oblq0 + MulDiv(-t, OblqRate, RateScale)

Ecliptic ==
    /\ pc = "ecl"
    /\ LET ml == MeanLongitude(time)
           ma == MeanAnomaly(time)
       IN /\ mnlong' = ml
          /\ mnanom' = ma
          /\ \E s1 \in SinValues(ma), s2 \in SinValues(2 * ma) :
                eclong' = EclipticLongitude(ml, s1, s2)
    /\ oblqec' = Obliquity(time)
    /\ pc' = "ra"
    /\ UNCHANGED <<args, err, day, hour, time, num, den, dir, corr, ra, dec,
                   gmst, lmst, ha, el, az, cosAzPos, sinAzNeg, result>>

----------------------------------------------------------------------------
(* Right ascension and declination, lines 49-56 *)

(* The direction of the vector (den, num) = (cos(eclong),                  *)
(* cos(oblqec) * sin(eclong)): eclong itself on an axis, and otherwise an  *)
(* angle of the same open quadrant, since cos(oblqec) > 0                  *)
Directions(ecl) ==
    IF ecl % QuarterCircle = 0 THEN {ecl}
    ELSE {(ecl \div QuarterCircle) * QuarterCircle + k * GridStep : k \in 1..(GridN - 1)}

(* lines 54-55 with the second test reduced to num < 0 *)
QuadrantCorrection_NoDenTest(n, d) ==
    (IF d < 0 THEN HalfCircle ELSE 0) + (IF n < 0 THEN FullCircle ELSE 0)

(* The sign math.cos(eclong) has where cos is exactly zero, when it is a   *)
(* residue and not 0.0: that of the angle one unit below (eclong * deg2rad *)
(* is below the exact odd multiple of pi / 2)                              *)
Residue(ecl) == ecl - 1

(* lines 53-55, for den # 0 *)
QuadrantCorrection(n, d) ==
    (IF d < 0 THEN HalfCircle ELSE 0) + (IF d >= 0 /\ n < 0 THEN FullCircle ELSE 0)

CorrectionsApplied(n, d) ==
    (IF d < 0 THEN 1 ELSE 0) + (IF d >= 0 /\ n < 0 THEN 1 ELSE 0)

RightAscensionValue(n, d, t) == AtanOfTan(t) + QuadrantCorrection(n, d)

(* line 56: asin(sin(oblqec) * sin(eclong)) *)
Declinations(ecl, obl) ==
    LET sg == SinSign(ecl)
    IN IF sg = 0 THEN {0}
       ELSE IF ecl % HalfCircle = QuarterCircle THEN {sg * obl}
       ELSE {sg * g : g \in Inside(0, obl)}

(* The values den may have: the sign of cos(eclong), and where that is    *)
(* zero either 0.0 or the residue                                          *)
Denominators(ecl) ==
    IF CosSign(ecl) = 0 THEN {0, CosSign(Residue(ecl))} ELSE {CosSign(ecl)}

(* The direction of (den, num) for a residue den: just inside the quadrant *)
DirectionsFor(ecl, d) ==
    IF CosSign(ecl) = 0 /\ d # 0 THEN {Residue(ecl)} ELSE Directions(ecl)

RightAscension ==
    /\ pc = "ra"
    /\ \E d \in Denominators(eclong) :
          LET n == CosSign(oblqec) * SinSign(eclong)
          IN /\ num' = n
             /\ den' = d
             /\ IF d = 0
                THEN /\ pc' = "raised"
                     /\ err' = "ZeroDivisionError"
                     /\ UNCHANGED <<dir, corr, ra, dec>>
                ELSE /\ \E t \in DirectionsFor(eclong, d) :
                           /\ dir' = t
                           /\ ra' = RightAscensionValue(n, d, t)
                     /\ corr' = CorrectionsApplied(n, d)
                     /\ dec' \in Declinations(eclong, oblqec)
                     /\ pc' = "sid"
                     /\ err' = err
    /\ UNCHANGED <<args, day, hour, time, mnlong, mnanom, eclong, oblqec, gmst,
                   lmst, ha, el, az, cosAzPos, sinAzNeg, result>>

----------------------------------------------------------------------------
(* Sidereal time, lines 58-68 *)

Gmst0 == 6697375
GmstRate == 657098242

(* x % 24 followed by x += int(x < 0) * 24 (lines 61-62, 66-67): the       *)
(* values the float remainder may have, each with the second step applied  *)
Normalize24(x) ==
    {r + (IF r < 0 THEN FullDay * UnitsPerHour ELSE 0) :
        r \in PyMod(x, FullDay * UnitsPerHour)}

(* Sidereal units to 1/1000 degree of longitude: 1 / (15 * deg) hours *)
UnitsPerMilliDegree == UnitsPerHour \div (15 * Milli)

(* line 60: 6.697375 + 0.0657098242 * time + hour, in sidereal units; the  *)
(* rate is in 1e-10 hour per day                                           *)
GreenwichSidereal(t, h) ==
    Normalize24((Gmst0 * (UnitsPerHour \div 10000)) \div 100
                + MulDiv(t, GmstRate, 100000 * ((100000 * TicksPerDay) \div UnitsPerHour))
                + h * (UnitsPerHour \div TicksPerHour))

(* lines 65-67: gmst + long / 15, long in mdeg *)
LocalSidereal(g, lo) == Normalize24(g + lo * UnitsPerMilliDegree)

(* line 68: lmst * 15 * deg2rad, in mdeg *)
SiderealAngle(l) == l \div UnitsPerMilliDegree

Sidereal ==
    /\ pc = "sid"
    /\ \E g \in GreenwichSidereal(time, hour) :
          /\ gmst' = g
          /\ \E l \in LocalSidereal(g, args.long) : lmst' = SiderealAngle(l)
    /\ pc' = "ha"
    /\ UNCHANGED <<args, err, day, hour, time, mnlong, mnanom, eclong, oblqec,
                   num, den, dir, corr, ra, dec, ha, el, az, cosAzPos, sinAzNeg,
                   result>>

----------------------------------------------------------------------------
(* Hour angle, lines 70-73 *)

(* lines 71-72 without line 73 *)
HourAngleValue_NoSubtract(l, r) ==
    LET h0 == l - r
    IN h0 + (IF h0 < -HalfCircle THEN FullCircle ELSE 0)

HourAngleValue(l, r) ==
    LET h0 == l - r
        h1 == h0 + (IF h0 < -HalfCircle THEN FullCircle ELSE 0)
    IN h1 - (IF h1 > HalfCircle THEN FullCircle ELSE 0)

HourAngle ==
    /\ pc = "ha"
    /\ ha' = HourAngleValue(lmst, ra)
    /\ pc' = "el"
    /\ UNCHANGED <<args, err, day, hour, time, mnlong, mnanom, eclong, oblqec,
                   num, den, dir, corr, ra, dec, gmst, lmst, el, az, cosAzPos,
                   sinAzNeg, result>>

----------------------------------------------------------------------------
(* Elevation, lines 75-79 *)

(* asin(sin(dec) sin(lat) + cos(dec) cos(lat) cos(ha)): the argument is    *)
(* cos(lat - dec) at ha = 0 and -cos(lat + dec) at ha = +-180, and lies    *)
(* strictly between the two for any other ha                               *)
ElevationAtZero(la, de) == QuarterCircle - Abs(la - de)

ElevationAtHalf(la, de) == Abs(la + de) - QuarterCircle

Elevations(la, de, h) ==
    LET e0 == ElevationAtZero(la, de)
        e1 == ElevationAtHalf(la, de)
    IN IF h = 0 \/ e0 = e1 THEN {e0}
       ELSE IF Abs(h) = HalfCircle THEN {e1}
       ELSE Inside(Min(e0, e1), Max(e0, e1))

(* math.asin(x) for an x whose exact value has the arcsine a: a itself,    *)
(* or, when a is 90 or -90 degrees and the float x has rounded beyond 1 or *)
(* -1, ValueError("math domain error")                                     *)
Asin(a) ==
    {[err |-> "", value |-> a]}
        \cup (IF Abs(a) = QuarterCircle
              THEN {[err |-> "ValueError", value |-> 0]} ELSE {})

Elevation ==
    /\ pc = "el"
    /\ \E e \in Elevations(args.lat, dec, ha) : \E o \in Asin(e) :
          /\ err' = o.err
          /\ el' = IF o.err = "" THEN o.value ELSE el
          /\ pc' = IF o.err = "" THEN "az" ELSE "raised"
    /\ UNCHANGED <<args, day, hour, time, mnlong, mnanom, eclong, oblqec,
                   num, den, dir, corr, ra, dec, gmst, lmst, ha, az, cosAzPos,
                   sinAzNeg, result>>

----------------------------------------------------------------------------
(* Azimuth and the return, lines 80-93 *)

(* The exact arcsine of -cos(dec) * sin(ha) / cos(el) (line 80), for       *)
(* cos(el) > 0: it has the sign of -sin(ha).  sin(0.0) is 0.0;             *)
(* sin(math.pi) is a residue above zero, which puts the quotient in the    *)
(* last unit below zero, and sin(-math.pi) one below zero, which floors to *)
(* zero                                                                    *)
RawAzimuths(h) ==
    LET sg == -SinSign(h)
    IN IF h = HalfCircle THEN {-1}
       ELSE IF sg = 0 THEN {0}
       ELSE {sg * g : g \in {x \in AsinGrid : x > 0}}

(* line 80.  With cos(el) > 0 the quotient is in asin's domain, up to its  *)
(* rounding.  With el at 90 or -90 degrees math.cos(el) is 0.0 and the     *)
(* division raises, or it is a residue: the quotient is then 0.0 if        *)
(* sin(ha) is (ha = 0.0), and otherwise outside [-1, 1]                    *)
AzimuthOutcomes(e, h) ==
    IF CosSign(e) = 0
    THEN {[err |-> "ZeroDivisionError", value |-> 0],
          [err |-> "ValueError", value |-> 0]}
            \cup (IF h = 0 THEN {[err |-> "", value |-> 0]} ELSE {})
    ELSE UNION {Asin(a) : a \in RawAzimuths(h)}

(* lines 84-87: az += int(cosAzPos and sinAzNeg) * twopi, a float sum, and *)
(* az = pi - az when cosAzPos is false                                     *)
SpencerCorrection(a, cosPos) ==
    LET a1 == IF cosPos /\ a < 0 THEN AddRounded(a, FullCircle) ELSE {a}
    IN {IF ~cosPos THEN HalfCircle - x ELSE x : x \in a1}

Azimuth ==
    /\ pc = "az"
    /\ \E o \in AzimuthOutcomes(el, ha), c \in BOOLEAN :
          \E a \in SpencerCorrection(o.value, c) :
              /\ err' = o.err
              /\ pc' = IF o.err = "" THEN "returned" ELSE "raised"
              /\ cosAzPos' = IF o.err = "" THEN c ELSE cosAzPos
              /\ sinAzNeg' = IF o.err = "" THEN o.value < 0 ELSE sinAzNeg
              /\ az' = IF o.err = "" THEN a ELSE az
              /\ result' = IF o.err = "" THEN <<a, el>> ELSE result
    /\ UNCHANGED <<args, day, hour, time, mnlong, mnanom, eclong, oblqec, num,
                   den, dir, corr, ra, dec, gmst, lmst, ha, el>>

----------------------------------------------------------------------------
(* Initial states *)

DefaultLat == 43500
DefaultLong == -80500

Call(y, mo, d, h, mi, se, la, lo) ==
    [year |-> y, month |-> mo, day |-> d, hour |-> h, m |-> mi, s |-> se,
     lat |-> la, long |-> lo]

(* The call the script makes, at noon: plot_sun_path(2025, 6, 20, ...) *)
DefaultCall == Call(2025, 6, 20, 12, 0, 0, DefaultLat, DefaultLong)

Years == (EpochYear - YearSpan)..(EpochYear + YearSpan)

TimesOfDay == {<<0, 0, 0>>, <<12, 0, 0>>, <<23, 59, 50>>}

(* A call about to run block p: nothing raised, nothing returned, and the  *)
(* locals of the blocks that have not run yet unset                        *)
AtBlock(p, a) ==
    /\ pc = p
    /\ args = a
    /\ err = ""
    /\ num = 0 /\ den = 0 /\ dir = 0 /\ corr = 0
    /\ el = 0 /\ az = 0
    /\ cosAzPos = FALSE /\ sinAzNeg = FALSE
    /\ result = <<>>

Unset(v) == v = 0

(* Whole calls: months inside and outside 1..12 (down to the first and up  *)
(* to the last that numpy's index rejects), days that exist in every month *)
(* and days that do not, latitudes inside and outside [-90, 90]            *)
Init ==
    /\ \E y \in {2024, 2025}, mo \in (-11 - MonthSpan)..(12 + MonthSpan),
          d \in {1, 29}, la \in {DefaultLat, QuarterCircle + 10 * Milli} :
          AtBlock("doy", Call(y, mo, d, 12, 0, 0, la, DefaultLong))
    /\ Unset(day) /\ Unset(hour) /\ Unset(time) /\ Unset(mnlong)
    /\ Unset(mnanom) /\ Unset(eclong) /\ Unset(oblqec) /\ Unset(ra)
    /\ Unset(dec) /\ Unset(gmst) /\ Unset(lmst) /\ Unset(ha)

Next ==
    \/ DayOfYear
    \/ JulianDate
    \/ Ecliptic
    \/ RightAscension
    \/ Sidereal
    \/ HourAngle
    \/ Elevation
    \/ Azimuth

Spec == Init /\ [][Next]_vars

(* The date blocks, over every month 1..12 and day 1..MaxDay of the years  *)
(* around the epoch                                                        *)
InitCal ==
    /\ \E y \in Years, mo \in 1..12, d \in 1..MaxDay, t \in TimesOfDay :
          AtBlock("doy", Call(y, mo, d, t[1], t[2], t[3], DefaultLat, DefaultLong))
    /\ Unset(day) /\ Unset(hour) /\ Unset(time) /\ Unset(mnlong)
    /\ Unset(mnanom) /\ Unset(eclong) /\ Unset(oblqec) /\ Unset(ra)
    /\ Unset(dec) /\ Unset(gmst) /\ Unset(lmst) /\ Unset(ha)

NextCal == DayOfYear \/ JulianDate

SpecCal == InitCal /\ [][NextCal]_vars

(* The ecliptic block and the sidereal block, each over the instants of    *)
(* MaxDays days before and after the epoch (time is a whole number of      *)
(* days, less half a day, plus the hour) and longitudes over [-180, 180]   *)
Longitudes == {-HalfCircle, DefaultLong, 0, HalfCircle}

(* The western longitudes, if any, at which the local sidereal time of an  *)
(* instant is 0 h: those whose long / 15 is the Greenwich sidereal time    *)
(* with its sign changed, up to the unit                                   *)
SiderealOrigins(ti, h) ==
    {lo \in {-(g \div UnitsPerMilliDegree) - 1 : g \in GreenwichSidereal(ti, h)} :
        lo >= -HalfCircle}

InitEcl ==
    /\ \E n \in (-MaxDays)..MaxDays, t \in TimesOfDay, p \in {"ecl", "sid"} :
          LET h == HourFraction(t[1], t[2], t[3])
              ti == n * TicksPerDay - TicksPerDay \div 2 + h
          IN \E lo \in Longitudes \cup SiderealOrigins(ti, h) :
                /\ AtBlock(p, Call(EpochYear, 1, 1, t[1], t[2], t[3], DefaultLat, lo))
                /\ hour = h
                /\ time = ti
    /\ Unset(day) /\ Unset(mnlong) /\ Unset(mnanom) /\ Unset(eclong)
    /\ Unset(oblqec) /\ Unset(ra) /\ Unset(dec) /\ Unset(gmst)
    /\ Unset(lmst) /\ Unset(ha)

NextEcl == Ecliptic \/ Sidereal

SpecEcl == InitEcl /\ [][NextEcl]_vars

(* The right-ascension block, over ecliptic longitudes on every axis and   *)
(* in every quadrant                                                       *)
InitRA ==
    /\ AtBlock("ra", DefaultCall)
    /\ eclong \in CircleGrid
    /\ oblqec \in {Oblq0 - 1, Oblq0, Oblq0 + 1}
    /\ Unset(day) /\ Unset(hour) /\ Unset(time) /\ Unset(mnlong)
    /\ Unset(mnanom) /\ Unset(ra) /\ Unset(dec) /\ Unset(gmst)
    /\ Unset(lmst) /\ Unset(ha)

NextRA == RightAscension

SpecRA == InitRA /\ [][NextRA]_vars

(* The hour-angle block, over sidereal angles and right ascensions of      *)
(* [0, 360000)                                                             *)
InitHA ==
    /\ AtBlock("ha", DefaultCall)
    /\ lmst \in CircleGrid
    /\ ra \in CircleGrid
    /\ Unset(day) /\ Unset(hour) /\ Unset(time) /\ Unset(mnlong)
    /\ Unset(mnanom) /\ Unset(eclong) /\ Unset(oblqec) /\ Unset(dec)
    /\ Unset(gmst) /\ Unset(ha)

NextHA == HourAngle

SpecHA == InitHA /\ [][NextHA]_vars

(* The elevation and azimuth blocks, over latitudes of [-90, 90],          *)
(* declinations within the obliquity and hour angles of [-180, 180]        *)
HourAngles == {g - HalfCircle : g \in CircleGrid} \cup {HalfCircle}

InitAz ==
    /\ \E la \in AsinGrid :
          AtBlock("el", Call(2025, 6, 20, 12, 0, 0, la, DefaultLong))
    /\ dec \in {g \in AsinGrid : Abs(g) <= Oblq0}
    /\ ha \in HourAngles
    /\ Unset(day) /\ Unset(hour) /\ Unset(time) /\ Unset(mnlong)
    /\ Unset(mnanom) /\ Unset(eclong) /\ Unset(oblqec) /\ Unset(ra)
    /\ Unset(gmst) /\ Unset(lmst)

NextAz == Elevation \/ Azimuth

SpecAz == InitAz /\ [][NextAz]_vars

----------------------------------------------------------------------------
(* The calendar, stated independently of the code's table *)

IsLeapYear(y) == y % 4 = 0 /\ (y % 100 # 0 \/ y % 400 = 0)

DaysInMonth(y, mo) ==
    IF mo = 2 THEN (IF IsLeapYear(y) THEN 29 ELSE 28)
    ELSE IF mo \in {4, 6, 9, 11} THEN 30 ELSE 31

ValidDate(y, mo, d) == mo \in 1..12 /\ d >= 1 /\ d <= DaysInMonth(y, mo)

RECURSIVE Ordinal(_, _, _)
Ordinal(y, mo, d) == IF mo = 1 THEN d ELSE DaysInMonth(y, mo - 1) + Ordinal(y, mo - 1, d)

(* The Julian day number of a Gregorian date (the day that starts at its noon) *)
JulianDayNumber(y, mo, d) ==
    LET a == (14 - mo) \div 12
        yy == y + 4800 - a
        mm == mo + 12 * a - 3
    IN d + (153 * mm + 2) \div 5 + 365 * yy + yy \div 4 - yy \div 100
         + yy \div 400 - 32045

(* Days from noon of 1 January 2000 to the call's date and time, in ticks *)
TrueTime(a) ==
    (JulianDayNumber(a.year, a.month, a.day) - JulianDayNumber(EpochYear, 1, 1))
        * TicksPerDay
      + HourFraction(a.hour, a.m, a.s) - TicksPerDay \div 2

DateDone == pc \in {"jd", "ecl"}

(* C2: for every valid Gregorian date the day of the year the code computes *)
(* is the date's calendar ordinal.                                          *)
C2_DayOfYearIsOrdinal ==
    (DateDone /\ ValidDate(args.year, args.month, args.day))
        => day = Ordinal(args.year, args.month, args.day)

(* C2 witness: 29 February of a leap year has been given day 60 *)
C2_Witness ==
    /\ DateDone
    /\ IsLeapYear(args.year) /\ args.month = 2 /\ args.day = 29
    /\ day = 60

(* C3: for every valid date and time of any year, time is the true number  *)
(* of days since noon of 1 January 2000.                                   *)
C3_TimeIsDaysSinceEpoch ==
    (pc = "ecl" /\ ValidDate(args.year, args.month, args.day))
        => time = TrueTime(args)

(* C3 holds from 1901 to 2100, the years for which one leap day every four *)
(* years is the Gregorian calendar                                         *)
TimeIsDaysSinceEpochIn20thAnd21st ==
    (pc = "ecl" /\ ValidDate(args.year, args.month, args.day)
        /\ args.year \in 1901..2100)
        => time = TrueTime(args)

----------------------------------------------------------------------------
(* Claims about whole calls, under Spec *)

(* C4: a call whose month is outside 1..12 or whose latitude is outside    *)
(* [-90, 90] never returns a result.                                       *)
C4_InvalidMonthOrLatitudeNeverReturns ==
    (args.month \notin 1..12 \/ Abs(args.lat) > QuarterCircle)
        => pc # "returned"

(* C5: a call whose day does not exist in its month and year never         *)
(* returns a result.                                                       *)
C5_InvalidDayNeverReturns ==
    (args.month \in 1..12 /\ ~ValidDate(args.year, args.month, args.day))
        => pc # "returned"

----------------------------------------------------------------------------
(* Claims about the elevation and azimuth blocks, under SpecAz *)

(* C1: a call with a latitude in [-90, 90] that returns, returns an        *)
(* elevation in [-90, 90] and an azimuth in [0, 360), whatever the raw     *)
(* azimuth in [-90, 90] and whichever the value of cosAzPos.               *)
C1_ResultInRange ==
    (pc = "returned" /\ Abs(args.lat) <= QuarterCircle)
        => /\ Len(result) = 2
           /\ result[1] >= 0 /\ result[1] < FullCircle
           /\ result[2] >= -QuarterCircle /\ result[2] <= QuarterCircle

(* C6: when cos(eclong) or cos(el) is exactly zero the call raises nothing *)
(* and returns a complete pair.                                            *)
DegenerateGeometry ==
    \/ pc \in {"sid", "ha", "el", "az", "returned", "raised"}
           /\ CosSign(eclong) = 0
    \/ pc \in {"az", "returned", "raised"} /\ CosSign(el) = 0

C6_DegenerateCaseReturns ==
    (DegenerateGeometry /\ pc # "az") => (pc = "returned" /\ Len(result) = 2)

----------------------------------------------------------------------------
(* Claims about the hour-angle block, under SpecHA *)

(* C8 as claimed: the normalized hour angle lies in (-180, 180], so it is  *)
(* never -180.                                                             *)
C8_HourAngleHalfOpen ==
    pc = "el" => (ha > -HalfCircle /\ ha <= HalfCircle)

(* C8 as amended: the normalized hour angle lies in the closed interval    *)
(* [-180, 180], differs from lmst - ra by a whole number of turns, and is  *)
(* -180 only where lmst - ra is -180.                                      *)
C8_HourAngleClosed ==
    pc = "el" =>
        /\ ha >= -HalfCircle /\ ha <= HalfCircle
        /\ (ha - (lmst - ra)) % FullCircle = 0
        /\ (ha = -HalfCircle => lmst - ra = -HalfCircle)

(* C8 witness: the hour angle has come out at exactly -180 *)
C8_Witness == pc = "el" /\ ha = -HalfCircle /\ lmst - ra = -HalfCircle

----------------------------------------------------------------------------
(* Claims about the ecliptic and sidereal blocks, under SpecEcl *)

(* C9: for every time, before or after the epoch, and every longitude, the *)
(* normalized mean longitude, mean anomaly and ecliptic longitude lie in   *)
(* [0, 360) and the normalized sidereal times lie in [0, 24) hours (lmst   *)
(* as an angle: in [0, 360)).                                              *)
C9_NormalizedRanges ==
    /\ pc = "ra" =>
          /\ mnlong >= 0 /\ mnlong < FullCircle
          /\ mnanom >= 0 /\ mnanom < FullCircle
          /\ eclong >= 0 /\ eclong < FullCircle
    /\ pc = "ha" =>
          /\ gmst >= 0 /\ gmst < FullDay * UnitsPerHour
          /\ lmst >= 0 /\ lmst < FullCircle

----------------------------------------------------------------------------
(* Claims about the right-ascension block, under SpecRA *)

(* C10: for a non-zero den the corrected right ascension is the direction  *)
(* of the vector (den, num) in [0, 360): it lies in the quadrant the signs *)
(* of num and den determine, and at most one correction is applied.        *)
C10_RightAscensionIsDirection ==
    pc = "sid" =>
        /\ ra = dir
        /\ ra >= 0 /\ ra < FullCircle
        /\ corr <= 1
        /\ (den > 0 /\ num >= 0) => ra < QuarterCircle
        /\ (den < 0 /\ num > 0) => (ra > QuarterCircle /\ ra < HalfCircle)
        /\ (den < 0 /\ num <= 0) => (ra >= HalfCircle /\ ra < 3 * QuarterCircle)
        /\ (den > 0 /\ num < 0) => ra > 3 * QuarterCircle

(* C10 witness: a right ascension of the fourth quadrant, reached by the   *)
(* correction of line 55                                                   *)
C10_Witness ==
    /\ pc = "sid"
    /\ den > 0 /\ num < 0 /\ corr = 1
    /\ ra > 3 * QuarterCircle

====
